---- MODULE Spec2Model ----
(***************************************************************************)
(* CineCatalogo page script (src/CSS2/script.js): image fallback handling, *)
(* smooth scrolling of fragment links and keyboard activation of cards.    *)
(* The page (images, anchors, cards, header) is the environment; every     *)
(* action is one task of the browser's event loop: an event dispatched by  *)
(* the browser, a timer callback, or a call of an exported function.       *)
(***************************************************************************)
EXTENDS Integers, Sequences, FiniteSets, TLC

VARIABLES imgs, listeners, domReady, hasMenu, tabindex, focused, last

vars == <<imgs, listeners, domReady, hasMenu, tabindex, focused, last>>

(* ---------------------------- bounds ----------------------------------- *)
MaxPrefix == 2
MaxTimers == 1
MaxListeners == 2

(* --------------------------- page markup ------------------------------- *)
Images == {1, 2}
\* the alt prefix of the error listener, written without its diacritics
Marker == "Imagem nao disponivel: "
DefaultWidth == 400
DefaultHeight == 300
Gutter == 20

OrigAlts == {<<"Poster">>, <<"Tom", "&", "Jerry">>}
Widths == {0, 120}
Heights == {0, 90}

Cards == {"card1", "card2"}
Elems == {"sec", "card1", "card2"}
NoElem == "none"
ElemId(e) == IF e = "card2" THEN <<>> ELSE <<e>>
Hrefs == {<<"#">>, <<"#", "sec">>, <<"#", "card1">>, <<"#", "nope">>,
          <<"page.html", "#", "sec">>}
Keys == {"Enter", " ", "Tab", "a"}
OffsetTops == {10, 500}
HeaderHeights == {0, 60}

(* ------------------------- image element ------------------------------- *)
UrlSrc == [kind |-> "url", w |-> 0, h |-> 0, sub |-> <<>>]

\* img.complete
Complete(im) == im.st \in {"ok", "broken"}

\* img.naturalWidth === 0 || img.naturalHeight === 0
NaturalZero(im) == im.st \in {"pending", "broken"}

\* ${this.width || 400}
OrDefault(v, d) == IF v = 0 THEN d ELSE v

\* 'data:image/svg+xml;charset=utf-8,' + encodeURIComponent(`<svg ...>`)
PlaceholderSrc(w, h, subtitle) ==
    [kind |-> "data", w |-> w, h |-> h, sub |-> subtitle]

\* the generated SVG is well-formed XML only if the interpolated text is
XmlSafe(text) == \A k \in 1..Len(text) : text[k] # "&"

\* a load listener that clears both state classes
OnLoad_ClearsMissing(im) == [im EXCEPT !.loading = FALSE, !.missing = FALSE]

\* load listener
OnLoad(im) == [im EXCEPT !.loading = FALSE]

\* error listener
OnError(im) ==
    LET marked == [im EXCEPT !.loading = FALSE, !.missing = TRUE,
                             !.alt = <<Marker>> \o im.alt]
    IN [marked EXCEPT
          !.src = PlaceholderSrc(OrDefault(marked.w, DefaultWidth),
                                 OrDefault(marked.h, DefaultHeight),
                                 marked.alt),
          !.st = "pending",
          !.writes = @ + 1]

\* number of load/error listener pairs registered on an image
ListenersOn(im, n) == IF im.lazy THEN n ELSE 0

RECURSIVE RunErrorListeners(_, _)
RunErrorListeners(im, n) ==
    IF n = 0 THEN im ELSE RunErrorListeners(OnError(im), n - 1)

RECURSIVE RunLoadListeners(_, _)
RunLoadListeners(im, n) ==
    IF n = 0 THEN im ELSE RunLoadListeners(OnLoad(im), n - 1)

\* img.dispatchEvent(new Event('error'))
DispatchError(im, n) == RunErrorListeners(im, ListenersOn(im, n))

\* a scan without the img-missing check
ScanSkips_Never(im) == FALSE

\* body of the for loop of checkForBrokenImages
ScanSkips(im) == im.missing
ScanDispatches(im) == ~ScanSkips(im) /\ Complete(im) /\ NaturalZero(im)
ScanSchedules(im) == ~ScanSkips(im) /\ ~ScanDispatches(im) /\ ~Complete(im)
ScanImage(im, n) ==
    IF ScanSkips(im) THEN im
    ELSE IF ScanDispatches(im) THEN DispatchError(im, n)
    ELSE IF ScanSchedules(im) THEN [im EXCEPT !.timers = @ + 1]
    ELSE im

\* images.forEach of initializeImageHandling (class part)
MarkLoading(im) ==
    IF im.lazy /\ ~Complete(im) THEN [im EXCEPT !.loading = TRUE] ELSE im

Bounded(f) ==
    \A i \in Images : f[i].writes <= MaxPrefix /\ f[i].timers <= MaxTimers

NoLast == [op |-> "none", img |-> 0, errs |-> {}, skipped |-> {},
           anchor |-> <<>>, el |-> NoElem, key |-> "",
           prevented |-> FALSE, scrolled |-> FALSE, scrollTop |-> 0,
           offTop |-> 0, hh |-> 0, threw |-> FALSE, clicks |-> <<>>]

(* ----------------------------- Init ------------------------------------ *)
ImageStates ==
    [lazy : BOOLEAN, st : {"pending", "partial", "ok", "broken"},
     missing : {FALSE}, loading : {FALSE}, alt : OrigAlts, src : {UrlSrc},
     w : Widths, h : Heights, timers : {0}, writes : {0}]

PlainImage ==
    [lazy |-> TRUE, st |-> "ok", missing |-> FALSE, loading |-> FALSE,
     alt |-> <<"Poster">>, src |-> UrlSrc, w |-> 0, h |-> 0, timers |-> 0,
     writes |-> 0]

InitCommon ==
    /\ listeners = 0
    /\ domReady = FALSE
    /\ focused = NoElem
    /\ last = NoLast

\* the page as parsed, before DOMContentLoaded: images in any load state
Init ==
    /\ InitCommon
    /\ imgs \in [Images -> ImageStates]
    /\ hasMenu = TRUE
    /\ tabindex = [e \in Elems |-> "none"]

\* the page as parsed, any header / tabindex markup, images loaded
InitNav ==
    /\ InitCommon
    /\ imgs = [i \in Images |-> PlainImage]
    /\ hasMenu \in BOOLEAN
    /\ tabindex \in [Elems -> {"none", "0"}]

(* --------------------------- initializers ------------------------------ *)
\* initializeImageHandling: register listeners, mark loading, then scan
ImageHandlingResult(f, n) ==
    [i \in Images |-> ScanImage(MarkLoading(f[i]), n + 1)]

\* initializeFocusManagement: card.setAttribute('tabindex', '0')
FocusManagementResult(t) ==
    [e \in Elems |-> IF e \in Cards THEN "0" ELSE t[e]]

DOMContentLoaded ==
    /\ ~domReady
    /\ listeners < MaxListeners
    /\ Bounded(ImageHandlingResult(imgs, listeners))
    /\ imgs' = ImageHandlingResult(imgs, listeners)
    /\ listeners' = listeners + 1
    /\ domReady' = TRUE
    /\ tabindex' = FocusManagementResult(tabindex)
    /\ last' = [NoLast EXCEPT !.op = "DOMContentLoaded",
                  !.errs = {i \in Images : ScanDispatches(MarkLoading(imgs[i]))},
                  !.skipped = {i \in Images : ScanSkips(imgs[i])}]
    /\ UNCHANGED <<hasMenu, focused>>

\* window.CineCatalogo.initializeImageHandling()
InitializeImageHandling ==
    /\ listeners < MaxListeners
    /\ Bounded(ImageHandlingResult(imgs, listeners))
    /\ imgs' = ImageHandlingResult(imgs, listeners)
    /\ listeners' = listeners + 1
    /\ last' = [NoLast EXCEPT !.op = "initializeImageHandling",
                  !.errs = {i \in Images : ScanDispatches(MarkLoading(imgs[i]))},
                  !.skipped = {i \in Images : ScanSkips(imgs[i])}]
    /\ UNCHANGED <<domReady, hasMenu, tabindex, focused>>

\* window.CineCatalogo.checkForBrokenImages()
CheckForBrokenImages ==
    /\ Bounded([i \in Images |-> ScanImage(imgs[i], listeners)])
    /\ imgs' = [i \in Images |-> ScanImage(imgs[i], listeners)]
    /\ last' = [NoLast EXCEPT !.op = "checkForBrokenImages",
                  !.errs = {i \in Images : ScanDispatches(imgs[i])},
                  !.skipped = {i \in Images : ScanSkips(imgs[i])}]
    /\ UNCHANGED <<listeners, domReady, hasMenu, tabindex, focused>>

\* setTimeout callback of checkForBrokenImages
TimerBody(im, n) ==
    IF NaturalZero(im) THEN DispatchError(im, n) ELSE im

TimerFire(i) ==
    /\ imgs[i].timers > 0
    /\ LET im == [imgs[i] EXCEPT !.timers = @ - 1]
       IN /\ TimerBody(im, listeners).writes <= MaxPrefix
          /\ imgs' = [imgs EXCEPT ![i] = TimerBody(im, listeners)]
    /\ last' = [NoLast EXCEPT !.op = "timer", !.img = i,
                  !.errs = IF NaturalZero(imgs[i]) THEN {i} ELSE {}]
    /\ UNCHANGED <<listeners, domReady, hasMenu, tabindex, focused>>

(* ---------------------- browser image events --------------------------- *)
\* the image header is decoded: natural dimensions known, not yet complete
BrowserProgress(i) ==
    /\ imgs[i].st = "pending"
    /\ imgs[i].src.kind = "data" => XmlSafe(imgs[i].src.sub)
    /\ imgs' = [imgs EXCEPT ![i].st = "partial"]
    /\ last' = [NoLast EXCEPT !.op = "progress", !.img = i]
    /\ UNCHANGED <<listeners, domReady, hasMenu, tabindex, focused>>

\* the current src finished loading: load event
BrowserLoad(i) ==
    /\ imgs[i].st \in {"pending", "partial"}
    /\ imgs[i].src.kind = "data" => XmlSafe(imgs[i].src.sub)
    /\ imgs' = [imgs EXCEPT ![i] =
                  RunLoadListeners([imgs[i] EXCEPT !.st = "ok"],
                                   ListenersOn(imgs[i], listeners))]
    /\ last' = [NoLast EXCEPT !.op = "load", !.img = i]
    /\ UNCHANGED <<listeners, domReady, hasMenu, tabindex, focused>>

\* the current src failed to load or decode: error event
BrowserError(i) ==
    /\ imgs[i].st = "pending"
    /\ imgs[i].src.kind = "data" => ~XmlSafe(imgs[i].src.sub)
    /\ LET im == DispatchError([imgs[i] EXCEPT !.st = "broken"], listeners)
       IN /\ im.writes <= MaxPrefix
          /\ imgs' = [imgs EXCEPT ![i] = im]
    /\ last' = [NoLast EXCEPT !.op = "error", !.img = i, !.errs = {i}]
    /\ UNCHANGED <<listeners, domReady, hasMenu, tabindex, focused>>

NextImg ==
    \/ DOMContentLoaded
    \/ InitializeImageHandling
    \/ CheckForBrokenImages
    \/ \E i \in Images : TimerFire(i)
    \/ \E i \in Images : BrowserProgress(i)
    \/ \E i \in Images : BrowserLoad(i)
    \/ \E i \in Images : BrowserError(i)

Spec == Init /\ [][NextImg]_vars

(* -------------------------- smooth scroll ------------------------------ *)
\* document.querySelectorAll('a[href^="#"]')
IsAnchorLink(href) == Len(href) > 0 /\ Head(href) = "#"

\* a click listener without the href !== '#' test
IsSamePageFragment_BareToo(href) == Len(href) > 0 /\ Head(href) = "#"

\* href !== '#' && href.startsWith('#')
IsSamePageFragment(href) == href # <<"#">> /\ IsAnchorLink(href)

\* document.getElementById(id)
GetElementById(id) ==
    IF \E e \in Elems : ElemId(e) # <<>> /\ ElemId(e) = id
    THEN CHOOSE e \in Elems : ElemId(e) # <<>> /\ ElemId(e) = id
    ELSE NoElem

\* a target position without the gutter
TargetPosition_NoGutter(offsetTop, headerHeight) == offsetTop - headerHeight

\* targetElement.offsetTop - headerHeight - 20
TargetPosition(offsetTop, headerHeight) == offsetTop - headerHeight - Gutter

\* targetElement.setAttribute('tabindex', '-1')
FocusTabindex(old) == "-1"

\* click event on an anchor; offsetTop and offsetHeight are read from layout
Click(href) ==
    /\ UNCHANGED <<imgs, listeners, domReady, hasMenu>>
    /\ LET target == GetElementById(Tail(href))
           clicked == [NoLast EXCEPT !.op = "click", !.anchor = href]
       IN IF ~(domReady /\ IsAnchorLink(href))
          THEN \* no listener on this anchor
               /\ last' = clicked
               /\ UNCHANGED <<tabindex, focused>>
          ELSE IF ~IsSamePageFragment(href)
          THEN /\ last' = clicked
               /\ UNCHANGED <<tabindex, focused>>
          ELSE IF target = NoElem
          THEN /\ last' = [clicked EXCEPT !.prevented = TRUE]
               /\ UNCHANGED <<tabindex, focused>>
          ELSE IF ~hasMenu
          THEN \* document.querySelector('.menu') is null: TypeError
               /\ last' = [clicked EXCEPT !.prevented = TRUE, !.threw = TRUE]
               /\ UNCHANGED <<tabindex, focused>>
          ELSE \E top \in OffsetTops, hh \in HeaderHeights :
               /\ last' = [clicked EXCEPT !.prevented = TRUE,
                             !.el = target, !.offTop = top, !.hh = hh,
                             !.scrolled = TRUE,
                             !.scrollTop = TargetPosition(top, hh)]
               /\ tabindex' = [tabindex EXCEPT
                                 ![target] = FocusTabindex(tabindex[target])]
               /\ focused' = target

(* ------------------------- focus management ---------------------------- *)
\* a keydown listener that only knows Enter
IsActivationKey_EnterOnly(key) == key = "Enter"

\* e.key === 'Enter' || e.key === ' '
IsActivationKey(key) == key = "Enter" \/ key = " "

\* keydown event on an element of the page
Keydown(el, key) ==
    /\ last' = IF domReady /\ el \in Cards /\ IsActivationKey(key)
               THEN [NoLast EXCEPT !.op = "keydown", !.el = el, !.key = key,
                       !.prevented = TRUE, !.clicks = <<el>>]
               ELSE [NoLast EXCEPT !.op = "keydown", !.el = el, !.key = key]
    /\ UNCHANGED <<imgs, listeners, domReady, hasMenu, tabindex, focused>>

NextNav ==
    \/ DOMContentLoaded
    \/ \E href \in Hrefs : Click(href)
    \/ \E el \in Elems, key \in Keys : Keydown(el, key)

SpecNav == InitNav /\ [][NextNav]_vars

(* ============================ properties =============================== *)
ScanOps == {"DOMContentLoaded", "initializeImageHandling",
            "checkForBrokenImages"}

HasMarker(alt) == Len(alt) > 0 /\ Head(alt) = Marker

MarkerCount(alt) == Cardinality({k \in 1..Len(alt) : alt[k] = Marker})

\* C1: after initialization, every image on which an error event was
\* dispatched, lazy or not, carries img-missing, not img-loading, and its
\* alt begins with the marker once the event has been handled.
C1_ErrorMarksAnyImage ==
    domReady =>
        \A i \in last.errs :
            /\ imgs[i].missing
            /\ ~imgs[i].loading
            /\ HasMarker(imgs[i].alt)

\* C2: a run of checkForBrokenImages leaves an image that already carries
\* img-missing alone: same src, same alt, no error event, no new timer.
C2_MissingImageSkipped ==
    [][last'.op \in ScanOps =>
         \A i \in Images :
            imgs[i].missing =>
                /\ imgs'[i].src = imgs[i].src
                /\ imgs'[i].alt = imgs[i].alt
                /\ imgs'[i].timers = imgs[i].timers
                /\ imgs'[i].writes = imgs[i].writes
                /\ i \notin last'.errs]_vars

\* a scan that skipped a missing image while dispatching an error on another
C2_Witness ==
    /\ last.op = "checkForBrokenImages"
    /\ last.skipped # {}
    /\ last.errs # {}

\* C3: img-missing is one-way: no step of the page removes it.
C3_MissingIsOneWay ==
    [][\A i \in Images : imgs[i].missing => imgs'[i].missing]_vars

\* the placeholder of a missing image has loaded and its load event ran
C3_Witness ==
    \E i \in Images :
        /\ last.op = "load" /\ last.img = i
        /\ imgs[i].missing /\ imgs[i].st = "ok" /\ imgs[i].lazy

\* C4: after initialization, on a page with a .menu header, a click on a
\* fragment link whose target exists prevents the default, requests a scroll
\* to offsetTop - headerHeight - 20 and leaves focus on the target.
C4_ClickScrollsAndFocuses ==
    (/\ domReady /\ hasMenu
     /\ last.op = "click"
     /\ Len(last.anchor) = 2 /\ last.anchor[1] = "#"
     /\ \E e \in Elems : ElemId(e) = <<last.anchor[2]>>)
    => /\ last.prevented
       /\ ~last.threw
       /\ last.scrolled
       /\ last.scrollTop = last.offTop - last.hh - 20
       /\ ElemId(focused) = <<last.anchor[2]>>

C4_Witness ==
    /\ domReady /\ hasMenu
    /\ last.op = "click" /\ last.anchor = <<"#", "sec">>
    /\ last.scrolled /\ last.scrollTop = 500 - 60 - 20
    /\ focused = "sec"

\* C5: a click on a fragment link naming no element prevents the default but
\* neither scrolls, nor moves focus, nor changes a tabindex, nor throws; a
\* click on the bare '#' link does not prevent the default and does none of
\* these either.
C5_DanglingFragmentIsNoOp ==
    [][(domReady /\ last'.op = "click") =>
         /\ (/\ Len(last'.anchor) = 2 /\ last'.anchor[1] = "#"
             /\ \A e \in Elems : ElemId(e) # <<last'.anchor[2]>>)
            => /\ last'.prevented
               /\ ~last'.scrolled
               /\ ~last'.threw
               /\ focused' = focused
               /\ tabindex' = tabindex
         /\ last'.anchor = <<"#">>
            => /\ ~last'.prevented
               /\ ~last'.scrolled
               /\ ~last'.threw
               /\ focused' = focused
               /\ tabindex' = tabindex]_vars

\* a dangling fragment link was clicked on a page whose focus sits on a target
C5_Witness ==
    /\ domReady
    /\ last.op = "click" /\ last.anchor = <<"#", "nope">>
    /\ last.prevented
    /\ focused # NoElem

\* C6: after initialization, Enter or Space on a card prevents the default
\* and clicks that card exactly once; any other key does neither.
C6_ActivationKeysClickCard ==
    (domReady /\ last.op = "keydown" /\ last.el \in Cards) =>
        IF last.key \in {"Enter", " "}
        THEN last.prevented /\ last.clicks = <<last.el>>
        ELSE ~last.prevented /\ last.clicks = <<>>

C6_Witness ==
    /\ domReady
    /\ last.op = "keydown" /\ last.el = "card2" /\ last.key = " "
    /\ last.prevented /\ last.clicks = <<"card2">>

\* C7: the startup scan puts every image that is complete with zero natural
\* size and not yet missing, lazy or not, through the failure path: marked
\* missing, alt prefixed, src replaced by the placeholder.
C7_StartupScanCoversAllImages ==
    [][last'.op = "DOMContentLoaded" =>
         \A i \in Images :
            (Complete(imgs[i]) /\ NaturalZero(imgs[i]) /\ ~imgs[i].missing)
            => /\ imgs'[i].missing
               /\ HasMarker(imgs'[i].alt)
               /\ imgs'[i].src.kind = "data"]_vars

\* C8: after initialization every card keeps tabindex 0, also after clicks
\* on fragment links that target a card.
C8_CardsStayInTabOrder ==
    domReady => \A c \in Cards : tabindex[c] = "0"

\* C9: a failure handled by one listener yields a placeholder whose subtitle
\* is the alt the image had before the handling and whose size is the
\* element's width and height, 400 and 300 standing in for zero.
C9_PlaceholderShowsOriginalAlt ==
    [][\A i \in Images :
          imgs'[i].writes = imgs[i].writes + 1 =>
             /\ imgs'[i].src.sub = imgs[i].alt
             /\ imgs'[i].src.w = (IF imgs[i].w = 0 THEN 400 ELSE imgs[i].w)
             /\ imgs'[i].src.h = (IF imgs[i].h = 0 THEN 300 ELSE imgs[i].h)]_vars

\* C10: with the listeners of the single startup initialization, whatever
\* the interleaving of load and error events, scans and re-check timers, an
\* image whose description is plain text gets the marker at most once and
\* its src replaced at most once.
C10_FailureHandledAtMostOnce ==
    listeners <= 1 =>
        \A i \in Images :
            XmlSafe(imgs[i].alt) =>
                /\ MarkerCount(imgs[i].alt) <= 1
                /\ imgs[i].writes <= 1

====
